---- MODULE Spec2Model ----
(***************************************************************************)
(* DataGrabber: the Yahoo-Finance CSV cache of YF.py and its two entry     *)
(* points, DataGrabber.YF (interactive batch) and YF.m_cli_update_one      *)
(* (single ticker).                                                        *)
(*                                                                         *)
(* Dates are day numbers.  Prices are integers counting 1e-7, so that the  *)
(* validator's tolerance (1e-6) and the two float formats of the writers   *)
(* ("%.14f" and "%.6f") are distinguishable.  A row keeps the Date and the *)
(* Adj Close column, the only column the program ever compares.            *)
(***************************************************************************)
EXTENDS Integers, Sequences, FiniteSets, TLC

VARIABLES
    csv,            \* data/<symbol>.csv, per symbol
    old,            \* data/<symbol>_OLD.csv, per symbol
    mode,           \* "batch" | "cli" | "merge" | "calendar" | "paths" | ...
    pc,             \* position of the running invocation
    valid,          \* the validated symbols of the batch, in input order
    idx,            \* loop index of the running pass over valid
    cached_ranges,  \* symbol -> (dateA, dateZ) read in the first pass
    is_valid_map,   \* symbol -> verdict of the first pass
    any_csv,        \* some symbol of the batch had a file in the first pass
    newDateA,       \* the base date typed in (batch)
    newDateZ,       \* today (batch)
    start_date_opt, \* the optional start date argument (cli)
    run,            \* number of the running invocation
    prev,           \* how the previous invocation ended
    valFetches,     \* provider fetches issued by validation in this invocation
    calls           \* the calls of update_setup / m_update_setup of this invocation

vars == <<csv, old, mode, pc, valid, idx, cached_ranges, is_valid_map, any_csv,
          newDateA, newDateZ, start_date_opt, run, prev, valFetches, calls>>

\* Last day number of the modelled calendar; "today" is the day before it,
\* so that one future date can be typed in.
MaxDay == 18

\* Number of program invocations in a behaviour.
MaxRuns == 2

\* Longest fetched batch handed to the merge in SpecMerge.
MaxBatch == 2

\* tolerance = 0.000001 of validate_CSV_data, in units of 1e-7.
Tolerance == 10

\* pd.Timedelta(days=7) of get_next_trading_day / get_last_trading_day.
LookAround == 7

Days == 0..MaxDay

Today == MaxDay - 1

Symbols == {"A", "B"}

\* What get_tickers/validate_tickers can hand to the batch: one symbol, the
\* same symbol twice (the list is not de-duplicated), two symbols.
Batches == {<<"A">>, <<"B">>, <<"A", "A">>, <<"A", "B">>}

----------------------------------------------------------------------------
\* Small helpers.

Min(S) == CHOOSE x \in S : \A y \in S : x <= y

Max(S) == CHOOSE x \in S : \A y \in S : x >= y

Abs(x) == IF x < 0 THEN -x ELSE x

Row(d, v) == [date |-> d, adj |-> v]

DatesOf(rows) == {rows[i].date : i \in DOMAIN rows}

RowSet(rows) == {rows[i] : i \in DOMAIN rows}

----------------------------------------------------------------------------
\* The trading calendar (nyse = mcal.get_calendar("NYSE")): weekdays, after a
\* historical closure that is longer than the look-around window.

IsTradingDay(d) == d >= 8 /\ (d % 7) \notin {5, 6}

\* nyse.schedule(start_date=d, end_date=d + 7 days): the trading days of it.
ScheduleAfter(d) == {t \in d..(d + LookAround) : IsTradingDay(t)}

\* nyse.schedule(start_date=d - 7 days, end_date=d)
ScheduleBefore(d) == {t \in (d - LookAround)..d : IsTradingDay(t)}

\* get_next_trading_day raises ValueError when the schedule is empty.
NextRaises(d) == ScheduleAfter(d) = {}

LastRaises(d) == ScheduleBefore(d) = {}

\* get_next_trading_day looking from the day after d.
get_next_trading_dayStrict(d) == Min(ScheduleAfter(d + 1))

get_next_trading_day(d) == Min(ScheduleAfter(d))

\* get_last_trading_day taking the first day of the schedule.
get_last_trading_dayFirst(d) == Min(ScheduleBefore(d))

get_last_trading_day(d) == Max(ScheduleBefore(d))

----------------------------------------------------------------------------
\* The remote provider (yf.download): one row per trading day on which the
\* symbol was listed, up to today; start inclusive, end exclusive.

ListedFrom(sym) == IF sym = "A" THEN 0 ELSE 10

\* A is a penny stock (about 1e-4), B is priced about 1: for B a relative
\* tolerance of 1e-5 (np.isclose's default rtol) would be ten times the
\* absolute one.
RemoteAdj(sym, d) ==
    IF sym = "A" THEN 1000 + 10 * d + 3 ELSE 10000000 + 10 * d + 6

ProviderHas(sym, d) == IsTradingDay(d) /\ d >= ListedFrom(sym) /\ d <= Today

RECURSIVE AscRows(_, _)
AscRows(sym, S) ==
    IF S = {} THEN <<>>
    ELSE LET m == Min(S)
         IN  <<Row(m, RemoteAdj(sym, m))>> \o AscRows(sym, S \ {m})

fetch_data(sym, t0, tn) ==
    AscRows(sym, {d \in t0..(tn - 1) : ProviderHas(sym, d)})

----------------------------------------------------------------------------
\* Files of the data directory.

NoFile == [exists |-> FALSE, rows |-> <<>>]

File(rows) == [exists |-> TRUE, rows |-> rows]

\* A field the provider left empty (NaN in the frame): to_csv writes it as the
\* empty field (na_rep='') under any float_format, read_csv reads it back NaN.
NaN == 0 - 1

\* Round6 keeping five decimals (float_format="%.5f").
Round6Coarse(v) == IF v = NaN THEN NaN ELSE ((v + 50) \div 100) * 100

\* float_format="%.6f": six decimals, i.e. a multiple of 10 units.
Round6(v) == IF v = NaN THEN NaN ELSE ((v + 5) \div 10) * 10

\* float_format="%.14f": exact at the model's resolution of 1e-7.
Round14(v) == v

Format6(rows) == [i \in DOMAIN rows |-> [rows[i] EXCEPT !.adj = Round6(@)]]

Format14(rows) == [i \in DOMAIN rows |-> [rows[i] EXCEPT !.adj = Round14(@)]]

----------------------------------------------------------------------------
\* has_data / get_CSV_dates / validate_CSV_data.

has_data(file) == file.exists

\* (df['Date'].min(), df['Date'].max()) of the file.
get_CSV_dates(file) ==
    [a |-> Min(DatesOf(file.rows)), z |-> Max(DatesOf(file.rows))]

\* yf.download(symbol, start=dateA, end=dateZ) of validate_CSV_data.
ValidationWindow(dateA, dateZ) ==
    [which |-> "validate", start |-> dateA, end |-> dateZ]

\* The Adj Close values at check_date = dateA, in the file and at the remote.
AnchorValues(rows, dateA) ==
    {rows[i].adj : i \in {j \in DOMAIN rows : rows[j].date = dateA}}

\* IsClose with np.isclose's default rtol=1e-5 left in.
IsCloseRelative(a, b) == Abs(a - b) <= Tolerance + (Abs(b) \div 100000)

\* np.isclose(csv_adj, yf_adj, atol=tolerance, rtol=0.0).all(): every compared
\* pair is within the absolute tolerance; with no pair to compare (one side
\* has no row at the anchor date) .all() of the empty comparison is True.
IsClose(a, b) == Abs(a - b) <= Tolerance

validate_CSV_data(file, dateA, dateZ, sym) ==
    \A a \in AnchorValues(file.rows, dateA) :
        \A b \in AnchorValues(fetch_data(sym, dateA, dateZ), dateA) :
            IsClose(a, b)

----------------------------------------------------------------------------
\* The merge of datapend / m_datapend.

\* sort_values("Date").drop_duplicates(subset=["Date"], keep="last"): one row
\* per date, ascending.  sort_values uses the default kind ("quicksort"),
\* which is not stable, so among rows of one date any may come last.
RECURSIVE KeepLast(_, _)
KeepLast(rows, D) ==
    IF D = {} THEN {<<>>}
    ELSE LET m == Min(D)
         IN  {<<r>> \o rest : r \in {x \in RowSet(rows) : x.date = m},
                               rest \in KeepLast(rows, D \ {m})}

\* The one outcome in which rows of equal date keep the order they have in the
\* concatenation (what a stable sort gives): the last of them is kept.
RECURSIVE KeepLastInOrder(_, _)
KeepLastInOrder(rows, D) ==
    IF D = {} THEN <<>>
    ELSE LET m == Min(D)
             k == Max({i \in DOMAIN rows : rows[i].date = m})
         IN  <<rows[k]>> \o KeepLastInOrder(rows, D \ {m})

\* Stitch without the sort and the drop_duplicates.
StitchConcatOnly(prepend_df, csv_df, append_df) == {prepend_df \o csv_df \o append_df}

\* Stitch that leaves the file's rows out of the concatenation.
StitchDropExisting(prepend_df, csv_df, append_df) ==
    LET combined == prepend_df \o append_df
    IN  KeepLast(combined, DatesOf(combined))

\* pd.concat([prepend_df, csv_df, append_df]) then sort and drop duplicates:
\* the set of frames the build can produce.
Stitch(prepend_df, csv_df, append_df) ==
    LET combined == prepend_df \o csv_df \o append_df
    IN  KeepLast(combined, DatesOf(combined))

need_prepend(dateA, tDateA) == dateA # tDateA

need_append(dateZ, tDateZ) == dateZ # tDateZ

\* m_need_prepend with datapend's test.
m_need_prependAnyDifference(dateA, tDateA) == dateA # tDateA

m_need_prepend(dateA, tDateA) == tDateA < dateA

m_need_append(dateZ, tDateZ) == tDateZ > dateZ

\* fetch_data(symbol, tDateA, end_exclusive=dateA)
PrependWindow(dateA, tDateA) ==
    [which |-> "prepend", start |-> tDateA, end |-> dateA]

\* AppendWindow with the end left at tDateZ (yfinance's end is exclusive).
AppendWindowEndInclusive(dateZ, tDateZ) ==
    [which |-> "append", start |-> dateZ + 1, end |-> tDateZ]

\* fetch_data(symbol, dateZ + 1 day, tDateZ + 1 day)
AppendWindow(dateZ, tDateZ) ==
    [which |-> "append", start |-> dateZ + 1, end |-> tDateZ + 1]

\* FullWindow with the end left at tDateZ.
FullWindowEndInclusive(tDateA, tDateZ) ==
    [which |-> "full", start |-> tDateA, end |-> tDateZ]

\* fetch_data(symbol, tDateA_str, tDateZ + 1 day) of the full grab
FullWindow(tDateA, tDateZ) ==
    [which |-> "full", start |-> tDateA, end |-> tDateZ + 1]

Fetched(sym, w) == fetch_data(sym, w.start, w.end)

\* The fetches datapend issues, in order.
EdgeWindows(np, na, dateA, dateZ, tDateA, tDateZ) ==
    (IF np THEN <<PrependWindow(dateA, tDateA)>> ELSE <<>>)
    \o (IF na THEN <<AppendWindow(dateZ, tDateZ)>> ELSE <<>>)

\* What one call of update_setup / m_update_setup did.
Outcome(plan, fetches, pre, app, csvFile, oldFile, writes) ==
    [plan |-> plan, fetches |-> fetches, pre |-> pre, app |-> app,
     csv |-> csvFile, old |-> oldFile, writes |-> writes]

\* The tail of datapend: stitch the fetched frames onto the file's rows and
\* write back with float_format="%.6f".
datapend_merge(csvFile, oldFile, fetches, pre, app) ==
    {Outcome("Merge", fetches, pre, app, File(Format6(combined)), oldFile, 1)
        : combined \in Stitch(pre, csvFile.rows, app)}

\* The tail of m_datapend: the same, written without float_format (repr of
\* the float: exact).
m_datapend_merge(csvFile, oldFile, fetches, pre, app) ==
    {Outcome("Merge", fetches, pre, app, File(combined), oldFile, 1)
        : combined \in Stitch(pre, csvFile.rows, app)}

\* datapend: the file is missing: FileNotFoundError; else fetch the edges
\* that differ and merge.
datapend(csvFile, oldFile, dateA, dateZ, tDateA, tDateZ, sym) ==
    IF ~csvFile.exists
    THEN {Outcome("Raise", <<>>, <<>>, <<>>, csvFile, oldFile, 0)}
    ELSE LET np  == need_prepend(dateA, tDateA)
             na  == need_append(dateZ, tDateZ)
             pre == IF np THEN Fetched(sym, PrependWindow(dateA, tDateA)) ELSE <<>>
             app == IF na THEN Fetched(sym, AppendWindow(dateZ, tDateZ)) ELSE <<>>
         IN  datapend_merge(csvFile, oldFile,
                            EdgeWindows(np, na, dateA, dateZ, tDateA, tDateZ), pre, app)

\* m_datapend: the same with the ordered guards.
m_datapend(csvFile, oldFile, dateA, dateZ, tDateA, tDateZ, sym) ==
    IF ~csvFile.exists
    THEN {Outcome("Raise", <<>>, <<>>, <<>>, csvFile, oldFile, 0)}
    ELSE LET np  == m_need_prepend(dateA, tDateA)
             na  == m_need_append(dateZ, tDateZ)
             pre == IF np THEN Fetched(sym, PrependWindow(dateA, tDateA)) ELSE <<>>
             app == IF na THEN Fetched(sym, AppendWindow(dateZ, tDateZ)) ELSE <<>>
         IN  m_datapend_merge(csvFile, oldFile,
                              EdgeWindows(np, na, dateA, dateZ, tDateA, tDateZ), pre, app)

----------------------------------------------------------------------------
\* save_data / cp_del / update_setup / m_update_setup.

\* save_data: a non-empty frame goes to .<symbol>.csv.tmp with "%.14f" and is
\* renamed onto <symbol>.csv; an empty frame writes nothing.
save_data(df, csvFile) == IF df # <<>> THEN File(Format14(df)) ELSE csvFile

\* cp_del removing the original without having copied it.
cp_delNoCopy(csvFile) == [csv |-> NoFile, old |-> NoFile]

\* cp_del: copy the file to <symbol>_OLD.csv and remove the original.
cp_del(csvFile) == [csv |-> NoFile, old |-> csvFile]

\* FullGrab backing the file up before looking at what the fetch returned.
FullGrabBackupFirst(csvFile, oldFile, tDateA, tDateZ, sym) ==
    LET w      == FullWindow(tDateA, tDateZ)
        df_new == Fetched(sym, w)
        backed == IF csvFile.exists THEN cp_del(csvFile)
                  ELSE [csv |-> csvFile, old |-> oldFile]
    IN  IF df_new = <<>>
        THEN Outcome("Abort", <<w>>, <<>>, <<>>, backed.csv, backed.old, 0)
        ELSE Outcome("FullReplace", <<w>>, <<>>, <<>>,
                     save_data(df_new, backed.csv), backed.old, 1)

\* The else branch of update_setup: fetch the whole target, and only when rows
\* came back, back up an existing file and save the new one.
FullGrab(csvFile, oldFile, tDateA, tDateZ, sym) ==
    LET w      == FullWindow(tDateA, tDateZ)
        df_new == Fetched(sym, w)
    IN  IF df_new = <<>>
        THEN Outcome("Abort", <<w>>, <<>>, <<>>, csvFile, oldFile, 0)
        ELSE LET backed == IF csvFile.exists THEN cp_del(csvFile)
                           ELSE [csv |-> csvFile, old |-> oldFile]
             IN  Outcome("FullReplace", <<w>>, <<>>, <<>>,
                         save_data(df_new, backed.csv), backed.old, 1)

\* The else branch of m_update_setup: the same without the backup.
m_FullGrab(csvFile, oldFile, tDateA, tDateZ, sym) ==
    LET w      == FullWindow(tDateA, tDateZ)
        df_new == Fetched(sym, w)
    IN  IF df_new = <<>>
        THEN Outcome("Abort", <<w>>, <<>>, <<>>, csvFile, oldFile, 0)
        ELSE Outcome("FullReplace", <<w>>, <<>>, <<>>,
                     save_data(df_new, csvFile), oldFile, 1)

\* UseCache ignoring the verdict.
UseCacheAlways(is_valid_cached) == TRUE

\* if is_valid_cached: the cache is kept and, at most, extended.
UseCache(is_valid_cached) == is_valid_cached

\* DatesMatch comparing the cached end with the target start.
DatesMatchWrongEnd(dateA, dateZ, tDateA, tDateZ) == dateA = tDateA /\ dateZ = tDateA

\* if (dateA == tDateA_str and dateZ == tDateZ_str): nothing to do.
DatesMatch(dateA, dateZ, tDateA, tDateZ) == dateA = tDateA /\ dateZ = tDateZ

update_setup(csvFile, oldFile, dateA, dateZ, newA, newZ, sym, is_valid_cached) ==
    IF NextRaises(newA) \/ LastRaises(newZ)
    THEN {Outcome("Raise", <<>>, <<>>, <<>>, csvFile, oldFile, 0)}
    ELSE LET tDateA == get_next_trading_day(newA)
             tDateZ == get_last_trading_day(newZ)
         IN  IF UseCache(is_valid_cached)
             THEN IF DatesMatch(dateA, dateZ, tDateA, tDateZ)
                  THEN {Outcome("NoOp", <<>>, <<>>, <<>>, csvFile, oldFile, 0)}
                  ELSE datapend(csvFile, oldFile, dateA, dateZ, tDateA, tDateZ, sym)
             ELSE {FullGrab(csvFile, oldFile, tDateA, tDateZ, sym)}

\* m_update_setup taking the full grab whatever is_valid_cached says.
m_update_setupAlwaysFull(csvFile, oldFile, dateA, dateZ, newA, newZ, sym, is_valid_cached) ==
    IF NextRaises(newA) \/ LastRaises(newZ)
    THEN {Outcome("Raise", <<>>, <<>>, <<>>, csvFile, oldFile, 0)}
    ELSE {m_FullGrab(csvFile, oldFile, get_next_trading_day(newA),
                     get_last_trading_day(newZ), sym)}

m_update_setup(csvFile, oldFile, dateA, dateZ, newA, newZ, sym, is_valid_cached) ==
    IF NextRaises(newA) \/ LastRaises(newZ)
    THEN {Outcome("Raise", <<>>, <<>>, <<>>, csvFile, oldFile, 0)}
    ELSE LET tDateA == get_next_trading_day(newA)
             tDateZ == get_last_trading_day(newZ)
         IN  IF UseCache(is_valid_cached)
             THEN IF DatesMatch(dateA, dateZ, tDateA, tDateZ)
                  THEN {Outcome("NoOp", <<>>, <<>>, <<>>, csvFile, oldFile, 0)}
                  ELSE m_datapend(csvFile, oldFile, dateA, dateZ, tDateA, tDateZ, sym)
             ELSE {m_FullGrab(csvFile, oldFile, tDateA, tDateZ, sym)}

\* The record kept of one call.
Call(entry, sym, had, isv, dateA, dateZ, newA, newZ, csvFile, oldFile, o) ==
    [entry |-> entry, sym |-> sym, hadFile |-> had, is_valid |-> isv,
     dateA |-> dateA, dateZ |-> dateZ, newDateA |-> newA, newDateZ |-> newZ,
     csvBefore |-> csvFile, oldBefore |-> oldFile, out |-> o]

----------------------------------------------------------------------------
\* Initial files: none, or a series the program wrote on an earlier day from
\* what the provider then returned: the provider's rows of [a, z], either
\* still equal to the remote values or all off by more than the tolerance
\* since the remote re-adjusted its history.

StaleShift == 5 * Tolerance

Series(sym, a, z, shift) ==
    LET rows == fetch_data(sym, a, z + 1)
    IN  [i \in DOMAIN rows |-> [rows[i] EXCEPT !.adj = @ + shift]]

InitialFiles(sym) ==
    LET had == {d \in Days : ProviderHas(sym, d)}
    IN  {NoFile} \cup
        {File(Series(sym, r[1], r[2], shift)) :
            r \in {p \in had \X had : p[1] <= p[2]},
            shift \in {0, StaleShift}}

NoRange == [has |-> FALSE, a |-> 0, z |-> 0]

NoStart == [given |-> FALSE, date |-> 0]

NoPrev == [ran |-> FALSE, pc |-> "none", newDateA |-> 0, start |-> NoStart]

\* The program state of a fresh invocation.
Start ==
    /\ pc' = "first"
    /\ idx' = 1
    /\ cached_ranges' = [s \in Symbols |-> NoRange]
    /\ is_valid_map' = [s \in Symbols |-> FALSE]
    /\ any_csv' = FALSE
    /\ newDateA' = 0
    /\ newDateZ' = 0
    /\ start_date_opt' = NoStart
    /\ valFetches' = {}
    /\ calls' = <<>>

Init ==
    /\ \E fa \in InitialFiles("A"), fb \in {NoFile, File(Series("B", 10, 11, 0))} :
         csv = [s \in Symbols |-> IF s = "A" THEN fa ELSE fb]
    /\ old = [s \in Symbols |-> NoFile]
    /\ \/ mode = "batch" /\ valid \in Batches
       \/ mode = "cli" /\ valid \in {<<"A">>, <<"B">>}
    /\ pc = "first"
    /\ idx = 1
    /\ cached_ranges = [s \in Symbols |-> NoRange]
    /\ is_valid_map = [s \in Symbols |-> FALSE]
    /\ any_csv = FALSE
    /\ newDateA = 0
    /\ newDateZ = 0
    /\ start_date_opt = NoStart
    /\ run = 1
    /\ prev = NoPrev
    /\ valFetches = {}
    /\ calls = <<>>

----------------------------------------------------------------------------
\* DataGrabber.YF, first pass: one symbol of the batch per step.

\* FirstPass with a validation that writes the file back after reading it.
FirstPassRewriting ==
    /\ mode = "batch" /\ pc = "first" /\ idx <= Len(valid)
    /\ LET symbol == valid[idx]
       IN  IF has_data(csv[symbol])
           THEN LET r == get_CSV_dates(csv[symbol])
                IN  /\ any_csv' = TRUE
                    /\ cached_ranges' =
                         [cached_ranges EXCEPT ![symbol] = [has |-> TRUE, a |-> r.a, z |-> r.z]]
                    /\ valFetches' = valFetches \cup
                         {[sym |-> symbol, w |-> ValidationWindow(r.a, r.z)]}
                    /\ is_valid_map' =
                         [is_valid_map EXCEPT ![symbol] =
                            validate_CSV_data(csv[symbol], r.a, r.z, symbol)]
                    /\ csv' = [csv EXCEPT ![symbol] = File(Format6(csv[symbol].rows))]
           ELSE /\ is_valid_map' = [is_valid_map EXCEPT ![symbol] = FALSE]
                /\ UNCHANGED <<any_csv, cached_ranges, valFetches, csv>>
    /\ idx' = idx + 1
    /\ UNCHANGED <<old, mode, pc, valid, newDateA, newDateZ, start_date_opt,
                   run, prev, calls>>

FirstPass ==
    /\ mode = "batch" /\ pc = "first" /\ idx <= Len(valid)
    /\ LET symbol == valid[idx]
       IN  IF has_data(csv[symbol])
           THEN LET r == get_CSV_dates(csv[symbol])
                IN  /\ any_csv' = TRUE
                    /\ cached_ranges' =
                         [cached_ranges EXCEPT ![symbol] = [has |-> TRUE, a |-> r.a, z |-> r.z]]
                    /\ valFetches' = valFetches \cup
                         {[sym |-> symbol, w |-> ValidationWindow(r.a, r.z)]}
                    /\ is_valid_map' =
                         [is_valid_map EXCEPT ![symbol] =
                            validate_CSV_data(csv[symbol], r.a, r.z, symbol)]
           ELSE /\ is_valid_map' = [is_valid_map EXCEPT ![symbol] = FALSE]
                /\ UNCHANGED <<any_csv, cached_ranges, valFetches>>
    /\ idx' = idx + 1
    /\ UNCHANGED <<csv, old, mode, pc, valid, newDateA, newDateZ, start_date_opt,
                   run, prev, calls>>

\* "Update the CSV file(s)? (y/n)": asked only when some file exists.
Decline ==
    /\ mode = "batch" /\ pc = "first" /\ idx > Len(valid)
    /\ any_csv
    /\ pc' = "exited"
    /\ UNCHANGED <<csv, old, mode, valid, idx, cached_ranges, is_valid_map, any_csv,
                   newDateA, newDateZ, start_date_opt, run, prev, valFetches, calls>>

\* The dates a run can be given: any date (also a future one); a re-run
\* repeats the request of the run before it.
Askable == IF prev.ran /\ prev.pc # "exited" THEN {prev.newDateA} ELSE Days

\* The base date is typed in; newDateZ is today.
EnterDates ==
    /\ mode = "batch" /\ pc = "first" /\ idx > Len(valid)
    /\ \E d \in Askable :
         /\ newDateA' = d
         /\ newDateZ' = Today
    /\ pc' = "second"
    /\ idx' = 1
    /\ UNCHANGED <<csv, old, mode, valid, cached_ranges, is_valid_map, any_csv,
                   start_date_opt, run, prev, valFetches, calls>>

\* DataGrabber.YF, second pass: update_setup for one symbol of the batch.  An
\* exception of update_setup is not caught: it ends the invocation.
SecondPass ==
    /\ mode = "batch" /\ pc = "second" /\ idx <= Len(valid)
    /\ LET symbol == valid[idx]
           had    == cached_ranges[symbol].has
           dateA  == IF had THEN cached_ranges[symbol].a ELSE newDateA
           dateZ  == IF had THEN cached_ranges[symbol].z ELSE newDateA
       IN  \E o \in update_setup(csv[symbol], old[symbol], dateA, dateZ,
                                 newDateA, newDateZ, symbol, is_valid_map[symbol]) :
             /\ csv' = [csv EXCEPT ![symbol] = o.csv]
             /\ old' = [old EXCEPT ![symbol] = o.old]
             /\ calls' = Append(calls,
                           Call("batch", symbol, had, is_valid_map[symbol], dateA, dateZ,
                                newDateA, newDateZ, csv[symbol], old[symbol], o))
             /\ IF o.plan = "Raise"
                THEN pc' = "crashed" /\ idx' = idx
                ELSE IF idx = Len(valid)
                     THEN pc' = "done" /\ idx' = idx + 1
                     ELSE pc' = pc /\ idx' = idx + 1
    /\ UNCHANGED <<mode, valid, cached_ranges, is_valid_map, any_csv,
                   newDateA, newDateZ, start_date_opt, run, prev, valFetches>>

----------------------------------------------------------------------------
\* YF.m_cli_update_one(ticker, start_date_opt).

\* m_ytd_start_today: January 1st of the running year, a day the market is
\* closed.
YtdStart == Today - 5

\* The start-date arguments a run can be given: none, or any date; a re-run
\* repeats the command line of the run before it.
StartArgs ==
    IF prev.ran THEN {prev.start}
    ELSE {NoStart} \cup {[given |-> TRUE, date |-> d] : d \in Days}

\* StartOverlaps letting a start on the file's last date through.
StartOverlapsStrict(newA, dateZ) == newA < dateZ

\* if newDateA <= dateZ: the requested start overlaps the file; skip.
StartOverlaps(newA, dateZ) == newA <= dateZ

\* The existing file is not validated: is_valid_cached = True.
CliExisting ==
    /\ mode = "cli" /\ pc = "first"
    /\ LET symbol == valid[1]
           r      == get_CSV_dates(csv[symbol])
           cliZ   == Today - 1
       IN  /\ has_data(csv[symbol])
           /\ \E arg \in StartArgs :
                /\ start_date_opt' = arg
                /\ IF arg.given /\ StartOverlaps(arg.date, r.z)
                   THEN /\ pc' = "skipped"
                        /\ UNCHANGED <<csv, old, calls>>
                   ELSE LET newA == IF arg.given THEN arg.date ELSE r.z + 1
                        IN  \E o \in m_update_setup(csv[symbol], old[symbol], r.a, r.z,
                                                    newA, cliZ, symbol, TRUE) :
                              /\ csv' = [csv EXCEPT ![symbol] = o.csv]
                              /\ old' = [old EXCEPT ![symbol] = o.old]
                              /\ calls' = Append(calls,
                                            Call("cli", symbol, TRUE, TRUE, r.a, r.z,
                                                 newA, cliZ, csv[symbol], old[symbol], o))
                              /\ pc' = IF o.plan = "Raise" THEN "crashed" ELSE "done"
    /\ UNCHANGED <<mode, valid, idx, cached_ranges, is_valid_map, any_csv,
                   newDateA, newDateZ, run, prev, valFetches>>

\* No file yet: the start date given, else the year's start; a full grab.
CliFresh ==
    /\ mode = "cli" /\ pc = "first"
    /\ LET symbol == valid[1]
           cliZ   == Today - 1
       IN  /\ ~has_data(csv[symbol])
           /\ \E arg \in StartArgs :
                LET newA == IF arg.given THEN arg.date ELSE YtdStart
                IN  /\ start_date_opt' = arg
                    /\ \E o \in m_update_setup(csv[symbol], old[symbol], newA, newA,
                                               newA, cliZ, symbol, FALSE) :
                         /\ csv' = [csv EXCEPT ![symbol] = o.csv]
                         /\ old' = [old EXCEPT ![symbol] = o.old]
                         /\ calls' = Append(calls,
                                       Call("cli", symbol, FALSE, FALSE, newA, newA,
                                            newA, cliZ, csv[symbol], old[symbol], o))
                         /\ pc' = IF o.plan = "Raise" THEN "crashed" ELSE "done"
    /\ UNCHANGED <<mode, valid, idx, cached_ranges, is_valid_map, any_csv,
                   newDateA, newDateZ, run, prev, valFetches>>

----------------------------------------------------------------------------
\* The program is started again, on the same data directory and with the same
\* command.

Finished == pc \in {"done", "exited", "skipped", "crashed"}

Rerun ==
    /\ mode \in {"batch", "cli"} /\ Finished
    /\ run < MaxRuns
    /\ run' = run + 1
    /\ prev' = [ran |-> TRUE, pc |-> pc, newDateA |-> newDateA, start |-> start_date_opt]
    /\ Start
    /\ UNCHANGED <<csv, old, mode, valid>>

Next ==
    \/ FirstPass
    \/ Decline
    \/ EnterDates
    \/ SecondPass
    \/ CliExisting
    \/ CliFresh
    \/ Rerun

Spec == Init /\ [][Next]_vars

----------------------------------------------------------------------------
\* A call that does not run to its end: the process is stopped (killed, power
\* loss) or a file operation raises (disk full, permission) between two of
\* its steps.  Files are written front to back, so a file whose write did not
\* finish holds a proper prefix of its rows.

Truncated(file) ==
    {File(SubSeq(file.rows, 1, k)) : k \in 0..(Len(file.rows) - 1)}

\* What such a call left behind: the step it stopped at, the three paths
\* data/<symbol>.csv, data/<symbol>_OLD.csv and data/.<symbol>.csv.tmp, and
\* the content the cache file was going to get.
Stopped(of, at, fetches, csvFile, oldFile, tmpFile, intended) ==
    [plan |-> "Stopped", of |-> of, at |-> at, fetches |-> fetches,
     pre |-> <<>>, app |-> <<>>, csv |-> csvFile, old |-> oldFile,
     tmp |-> tmpFile, intended |-> intended,
     writes |-> IF at = "writing" /\ of = "Merge" THEN 1 ELSE 0]

\* FullGrabStops with the original removed before it is copied.
FullGrabStopsRemoveFirst(csvFile, oldFile, o) ==
    LET backed == IF csvFile.exists THEN cp_del(csvFile)
                  ELSE [csv |-> csvFile, old |-> oldFile]
        S(at, c, b, t) == Stopped("FullReplace", at, o.fetches, c, b, t, o.csv)
    IN  {S("fetched", csvFile, oldFile, NoFile)}
        \cup (IF csvFile.exists
              THEN {S("removed", backed.csv, oldFile, NoFile)}
                   \cup {S("copying", backed.csv, b, NoFile) : b \in Truncated(backed.old)}
                   \cup {S("copied", backed.csv, backed.old, NoFile)}
              ELSE {})
        \cup {S("writing", backed.csv, backed.old, t) : t \in Truncated(o.csv)}
        \cup {S("written", backed.csv, backed.old, o.csv)}

\* update_setup's full grab once rows came back, step by step: cp_del's
\* shutil.copy2, cp_del's os.remove, save_data's to_csv(tmpname), and
\* os.replace (after which the call has its normal outcome o).
FullGrabStops(csvFile, oldFile, o) ==
    LET backed == IF csvFile.exists THEN cp_del(csvFile)
                  ELSE [csv |-> csvFile, old |-> oldFile]
        S(at, c, b, t) == Stopped("FullReplace", at, o.fetches, c, b, t, o.csv)
    IN  {S("fetched", csvFile, oldFile, NoFile)}
        \cup (IF csvFile.exists
              THEN {S("copying", csvFile, b, NoFile) : b \in Truncated(backed.old)}
                   \cup {S("copied", csvFile, backed.old, NoFile)}
                   \cup {S("removed", backed.csv, backed.old, NoFile)}
              ELSE {})
        \cup {S("writing", backed.csv, backed.old, t) : t \in Truncated(o.csv)}
        \cup {S("written", backed.csv, backed.old, o.csv)}

\* m_update_setup's full grab: save_data alone.
m_FullGrabStops(csvFile, oldFile, o) ==
    LET S(at, t) == Stopped("FullReplace", at, o.fetches, csvFile, oldFile, t, o.csv)
    IN  {S("fetched", NoFile)}
        \cup {S("writing", t) : t \in Truncated(o.csv)}
        \cup {S("written", o.csv)}

\* datapend / m_datapend: combined.to_csv(csv_path, ...) opens the cache file
\* itself for writing.
MergeStops(csvFile, oldFile, o) ==
    {Stopped("Merge", "fetched", o.fetches, csvFile, oldFile, NoFile, o.csv)}
    \cup {Stopped("Merge", "writing", o.fetches, t, oldFile, NoFile, o.csv)
             : t \in Truncated(o.csv)}

\* The ways a call that would have ended in o can stop before its end.
Stops(entry, csvFile, oldFile, o) ==
    IF o.plan = "FullReplace"
    THEN IF entry = "batch" THEN FullGrabStops(csvFile, oldFile, o)
         ELSE m_FullGrabStops(csvFile, oldFile, o)
    ELSE IF o.plan = "Merge" THEN MergeStops(csvFile, oldFile, o)
    ELSE {}

\* DataGrabber.YF stops within update_setup for a symbol of the batch.
StopSecondPass ==
    /\ mode = "batch" /\ pc = "second" /\ idx <= Len(valid)
    /\ LET symbol == valid[idx]
           had    == cached_ranges[symbol].has
           dateA  == IF had THEN cached_ranges[symbol].a ELSE newDateA
           dateZ  == IF had THEN cached_ranges[symbol].z ELSE newDateA
       IN  \E o \in update_setup(csv[symbol], old[symbol], dateA, dateZ,
                                 newDateA, newDateZ, symbol, is_valid_map[symbol]) :
             \E s \in Stops("batch", csv[symbol], old[symbol], o) :
               /\ csv' = [csv EXCEPT ![symbol] = s.csv]
               /\ old' = [old EXCEPT ![symbol] = s.old]
               /\ calls' = Append(calls,
                             Call("batch", symbol, had, is_valid_map[symbol], dateA, dateZ,
                                  newDateA, newDateZ, csv[symbol], old[symbol], s))
    /\ pc' = "stopped"
    /\ UNCHANGED <<mode, valid, idx, cached_ranges, is_valid_map, any_csv,
                   newDateA, newDateZ, start_date_opt, run, prev, valFetches>>

\* m_cli_update_one stops within m_update_setup, the file existing.
StopCliExisting ==
    /\ mode = "cli" /\ pc = "first"
    /\ LET symbol == valid[1]
           r      == get_CSV_dates(csv[symbol])
           cliZ   == Today - 1
       IN  /\ has_data(csv[symbol])
           /\ \E arg \in StartArgs :
                /\ start_date_opt' = arg
                /\ ~(arg.given /\ StartOverlaps(arg.date, r.z))
                /\ LET newA == IF arg.given THEN arg.date ELSE r.z + 1
                   IN  \E o \in m_update_setup(csv[symbol], old[symbol], r.a, r.z,
                                               newA, cliZ, symbol, TRUE) :
                         \E s \in Stops("cli", csv[symbol], old[symbol], o) :
                           /\ csv' = [csv EXCEPT ![symbol] = s.csv]
                           /\ old' = [old EXCEPT ![symbol] = s.old]
                           /\ calls' = Append(calls,
                                         Call("cli", symbol, TRUE, TRUE, r.a, r.z,
                                              newA, cliZ, csv[symbol], old[symbol], s))
    /\ pc' = "stopped"
    /\ UNCHANGED <<mode, valid, idx, cached_ranges, is_valid_map, any_csv,
                   newDateA, newDateZ, run, prev, valFetches>>

\* m_cli_update_one stops within m_update_setup, no file yet.
StopCliFresh ==
    /\ mode = "cli" /\ pc = "first"
    /\ LET symbol == valid[1]
           cliZ   == Today - 1
       IN  /\ ~has_data(csv[symbol])
           /\ \E arg \in StartArgs :
                LET newA == IF arg.given THEN arg.date ELSE YtdStart
                IN  /\ start_date_opt' = arg
                    /\ \E o \in m_update_setup(csv[symbol], old[symbol], newA, newA,
                                               newA, cliZ, symbol, FALSE) :
                         \E s \in Stops("cli", csv[symbol], old[symbol], o) :
                           /\ csv' = [csv EXCEPT ![symbol] = s.csv]
                           /\ old' = [old EXCEPT ![symbol] = s.old]
                           /\ calls' = Append(calls,
                                         Call("cli", symbol, FALSE, FALSE, newA, newA,
                                              newA, cliZ, csv[symbol], old[symbol], s))
    /\ pc' = "stopped"
    /\ UNCHANGED <<mode, valid, idx, cached_ranges, is_valid_map, any_csv,
                   newDateA, newDateZ, run, prev, valFetches>>

NextCrash ==
    \/ Next
    \/ StopSecondPass
    \/ StopCliExisting
    \/ StopCliFresh

SpecCrash == Init /\ [][NextCrash]_vars

----------------------------------------------------------------------------
\* A provider fetch that raises (a network or remote error yfinance does not
\* swallow).  fetch_data has no try/except and neither have datapend,
\* update_setup and DataGrabber.YF: the exception leaves the call at the
\* fetch, with the fetches before it done, and ends the batch.

\* FetchFails with the backup copy made before the fetch.
FetchFailsAfterBackup(csvFile, oldFile, o) ==
    {Stopped(IF o.plan = "Merge" THEN "Merge" ELSE "FullReplace", "fetching",
             SubSeq(o.fetches, 1, k), csvFile, csvFile, NoFile, o.csv)
        : k \in DOMAIN o.fetches}

\* The ways a call that would have ended in o can end at a fetch that raises:
\* at its k-th fetch, every fetch of the call being before its first file
\* operation (YF.py:231-238 before 262, 286 before 303-307).
FetchFails(csvFile, oldFile, o) ==
    {Stopped(IF o.plan = "Merge" THEN "Merge" ELSE "FullReplace", "fetching",
             SubSeq(o.fetches, 1, k), csvFile, oldFile, NoFile, o.csv)
        : k \in DOMAIN o.fetches}

\* DataGrabber.YF, second pass, a fetch of update_setup raising.
FailSecondPass ==
    /\ mode = "batch" /\ pc = "second" /\ idx <= Len(valid)
    /\ LET symbol == valid[idx]
           had    == cached_ranges[symbol].has
           dateA  == IF had THEN cached_ranges[symbol].a ELSE newDateA
           dateZ  == IF had THEN cached_ranges[symbol].z ELSE newDateA
       IN  \E o \in update_setup(csv[symbol], old[symbol], dateA, dateZ,
                                 newDateA, newDateZ, symbol, is_valid_map[symbol]) :
             \E s \in FetchFails(csv[symbol], old[symbol], o) :
               /\ csv' = [csv EXCEPT ![symbol] = s.csv]
               /\ old' = [old EXCEPT ![symbol] = s.old]
               /\ calls' = Append(calls,
                             Call("batch", symbol, had, is_valid_map[symbol], dateA, dateZ,
                                  newDateA, newDateZ, csv[symbol], old[symbol], s))
    /\ pc' = "crashed"
    /\ UNCHANGED <<mode, valid, idx, cached_ranges, is_valid_map, any_csv,
                   newDateA, newDateZ, start_date_opt, run, prev, valFetches>>

NextFail ==
    \/ Next
    \/ FailSecondPass

SpecFail == Init /\ [][NextFail]_vars

----------------------------------------------------------------------------
\* The paths of a symbol's files as the code builds them, and the second pass
\* over two distinct symbols seen as the paths it works on.  A symbol is
\* whatever string validate_ticker accepts (the remote returned a price for
\* it); the code itself puts no condition on its characters.

\* os.path.join("data", f"{symbol}.csv")
csv_path(symbol) == "data/" \o symbol \o ".csv"

\* os.path.join(folder, f"{symbol}_OLD.csv") of cp_del
backup_path(symbol) == "data/" \o symbol \o "_OLD.csv"

\* os.path.join("data", f".{symbol}.csv.tmp") of save_data
tmpname(symbol) == "data/." \o symbol \o ".csv.tmp"

Tickers == {"A", "B", "AB", "A.B", "A-B", "AOLD", "A_OLD", "B_OLD"}

InitPaths ==
    /\ valid \in {p \in Tickers \X Tickers : p[1] # p[2]}
    /\ csv = [s \in Symbols |-> NoFile]
    /\ old = [s \in Symbols |-> NoFile]
    /\ mode = "paths"
    /\ pc = "second"
    /\ idx = 1
    /\ cached_ranges = [s \in Symbols |-> NoRange]
    /\ is_valid_map = [s \in Symbols |-> FALSE]
    /\ any_csv = FALSE
    /\ newDateA = 0
    /\ newDateZ = 0
    /\ start_date_opt = NoStart
    /\ run = 1
    /\ prev = NoPrev
    /\ valFetches = {}
    /\ calls = <<>>

\* update_setup for the next symbol: the cache path it reads, removes and
\* renames onto, the backup path it copies to, the temporary path it writes.
TouchPaths ==
    /\ mode = "paths" /\ pc = "second" /\ idx <= Len(valid)
    /\ LET symbol == valid[idx]
       IN  calls' = Append(calls,
                      [entry |-> "paths", sym |-> symbol,
                       paths |-> {csv_path(symbol), backup_path(symbol), tmpname(symbol)}])
    /\ idx' = idx + 1
    /\ UNCHANGED <<csv, old, mode, pc, valid, cached_ranges, is_valid_map, any_csv,
                   newDateA, newDateZ, start_date_opt, run, prev, valFetches>>

NextPaths == TouchPaths

SpecPaths == InitPaths /\ [][NextPaths]_vars

----------------------------------------------------------------------------
\* Validation as a function of its inputs: the first pass over one symbol
\* whose file holds a few days of the provider's series, every value off by
\* the same amount, from below the tolerance to above it.

ValidateShifts == (-(Tolerance + 2))..(Tolerance + 2)

ValidateFiles(sym) ==
    LET had == {d \in Days : ProviderHas(sym, d) /\ d <= 11}
    IN  {NoFile} \cup
        {File(Series(sym, r[1], r[2], shift)) :
            r \in {p \in had \X had : p[1] <= p[2]},
            shift \in ValidateShifts}

InitValidate ==
    /\ valid \in {<<"A">>, <<"B">>}
    /\ \E f \in ValidateFiles(valid[1]) :
         csv = [s \in Symbols |-> IF s = valid[1] THEN f ELSE NoFile]
    /\ old \in {[s \in Symbols |-> NoFile],
                [s \in Symbols |-> File(Series(s, 10, 10, 0))]}
    /\ mode = "batch"
    /\ pc = "first"
    /\ idx = 1
    /\ cached_ranges = [s \in Symbols |-> NoRange]
    /\ is_valid_map = [s \in Symbols |-> FALSE]
    /\ any_csv = FALSE
    /\ newDateA = 0
    /\ newDateZ = 0
    /\ start_date_opt = NoStart
    /\ run = 1
    /\ prev = NoPrev
    /\ valFetches = {}
    /\ calls = <<>>

NextValidate == FirstPass

SpecValidate == InitValidate /\ [][NextValidate]_vars

----------------------------------------------------------------------------
\* The calendar lookups as functions of their inputs: update_setup called for
\* a symbol without a file, with any start and any end.

InitCalendar ==
    /\ newDateA \in Days
    /\ newDateZ \in Days
    /\ csv = [s \in Symbols |-> NoFile]
    /\ old = [s \in Symbols |-> NoFile]
    /\ mode = "calendar"
    /\ valid = <<"A">>
    /\ pc = "first"
    /\ idx = 1
    /\ cached_ranges = [s \in Symbols |-> NoRange]
    /\ is_valid_map = [s \in Symbols |-> FALSE]
    /\ any_csv = FALSE
    /\ start_date_opt = NoStart
    /\ run = 1
    /\ prev = NoPrev
    /\ valFetches = {}
    /\ calls = <<>>

Normalize ==
    /\ mode = "calendar" /\ pc = "first"
    /\ \E o \in update_setup(csv["A"], old["A"], newDateA, newDateA,
                              newDateA, newDateZ, "A", FALSE) :
         /\ csv' = [csv EXCEPT !["A"] = o.csv]
         /\ old' = [old EXCEPT !["A"] = o.old]
         /\ calls' = <<Call("update_setup", "A", FALSE, FALSE, newDateA, newDateA,
                            newDateA, newDateZ, csv["A"], old["A"], o)>>
         /\ pc' = IF o.plan = "Raise" THEN "crashed" ELSE "done"
    /\ UNCHANGED <<mode, valid, idx, cached_ranges, is_valid_map, any_csv,
                   newDateA, newDateZ, start_date_opt, run, prev, valFetches>>

NextCalendar == Normalize

SpecCalendar == InitCalendar /\ [][NextCalendar]_vars

----------------------------------------------------------------------------
\* The merge as a function of its inputs: any file the program can have
\* written over a few dates, and any two fetched frames over the same dates
\* (in any order, with repeated dates, overlapping the file or not).

MergeDates == {d \in Days : IsTradingDay(d) /\ d <= 10}

RECURSIVE SeqsUpTo(_, _)
SeqsUpTo(S, n) ==
    IF n = 0 THEN {<<>>}
    ELSE LET shorter == SeqsUpTo(S, n - 1)
         IN  shorter \cup {Append(q, x) : q \in shorter, x \in S}

Frames == SeqsUpTo({Row(d, RemoteAdj("A", d)) : d \in MergeDates}, MaxBatch)

MergeFiles ==
    {File(AscRowsShifted) :
        AscRowsShifted \in
            {[i \in DOMAIN AscRows("A", D) |->
                 [AscRows("A", D)[i] EXCEPT !.adj = @ + shift]] :
                D \in (SUBSET MergeDates) \ {{}}, shift \in {0, StaleShift}}}

InitMerge ==
    /\ \E f \in MergeFiles : csv = [s \in Symbols |-> IF s = "A" THEN f ELSE NoFile]
    /\ old = [s \in Symbols |-> NoFile]
    /\ mode = "merge"
    /\ valid = <<"A">>
    /\ pc = "first"
    /\ idx = 1
    /\ cached_ranges = [s \in Symbols |-> NoRange]
    /\ is_valid_map = [s \in Symbols |-> FALSE]
    /\ any_csv = FALSE
    /\ newDateA = 0
    /\ newDateZ = 0
    /\ start_date_opt = NoStart
    /\ run = 1
    /\ prev = NoPrev
    /\ valFetches = {}
    /\ calls = <<>>

MergeRecord(entry, o) ==
    /\ csv' = [csv EXCEPT !["A"] = o.csv]
    /\ calls' = <<Call(entry, "A", TRUE, TRUE, 0, 0, 0, 0, csv["A"], old["A"], o)>>
    /\ pc' = "done"
    /\ UNCHANGED <<old, mode, valid, idx, cached_ranges, is_valid_map, any_csv,
                   newDateA, newDateZ, start_date_opt, run, prev, valFetches>>

MergeDatapend ==
    /\ mode = "merge" /\ pc = "first"
    /\ \E pre \in Frames, app \in Frames :
         \E o \in datapend_merge(csv["A"], old["A"], <<>>, pre, app) :
            MergeRecord("datapend", o)

MergeMDatapend ==
    /\ mode = "merge" /\ pc = "first"
    /\ \E pre \in Frames, app \in Frames :
         \E o \in m_datapend_merge(csv["A"], old["A"], <<>>, pre, app) :
            MergeRecord("m_datapend", o)

NextMerge == MergeDatapend \/ MergeMDatapend

SpecMerge == InitMerge /\ [][NextMerge]_vars

----------------------------------------------------------------------------
\* The write paths on frames in which the provider left a field empty: the
\* file is any the program can have written, the fetched frames hold rows
\* whose Adj Close is present or missing.

MissingDates == {d \in MergeDates : d <= 9}

MissingFrames ==
    SeqsUpTo({Row(d, RemoteAdj("A", d)) : d \in MissingDates}
                 \cup {Row(d, NaN) : d \in MissingDates}, MaxBatch)

\* The else branch of update_setup from the fetched frame on.
MissingFullGrab ==
    /\ mode = "merge" /\ pc = "first"
    /\ \E df_new \in MissingFrames :
         LET backed == IF csv["A"].exists THEN cp_del(csv["A"])
                       ELSE [csv |-> csv["A"], old |-> old["A"]]
             o == IF df_new = <<>>
                  THEN Outcome("Abort", <<>>, <<>>, <<>>, csv["A"], old["A"], 0)
                  ELSE Outcome("FullReplace", <<>>, df_new, <<>>,
                               save_data(df_new, backed.csv), backed.old, 1)
         IN  /\ csv' = [csv EXCEPT !["A"] = o.csv]
             /\ old' = [old EXCEPT !["A"] = o.old]
             /\ calls' = <<Call("update_setup", "A", TRUE, FALSE, 0, 0, 0, 0,
                                csv["A"], old["A"], o)>>
             /\ pc' = "done"
             /\ UNCHANGED <<mode, valid, idx, cached_ranges, is_valid_map, any_csv,
                            newDateA, newDateZ, start_date_opt, run, prev, valFetches>>

MissingDatapend ==
    /\ mode = "merge" /\ pc = "first"
    /\ \E pre \in MissingFrames, app \in MissingFrames :
         \E o \in datapend_merge(csv["A"], old["A"], <<>>, pre, app) :
            MergeRecord("datapend", o)

MissingMDatapend ==
    /\ mode = "merge" /\ pc = "first"
    /\ \E pre \in MissingFrames, app \in MissingFrames :
         \E o \in m_datapend_merge(csv["A"], old["A"], <<>>, pre, app) :
            MergeRecord("m_datapend", o)

NextMissing == MissingFullGrab \/ MissingDatapend \/ MissingMDatapend

SpecMissing == InitMerge /\ [][NextMissing]_vars

----------------------------------------------------------------------------
\* m_datapend as a function of its arguments: any cached range and any target
\* range handed in, on any file the program can have written.  The record of
\* the call keeps tDateA and tDateZ as newDateA and newDateZ.

EdgeDays == {d \in Days : 7 <= d /\ d <= 12}

InitEdges ==
    /\ \E f \in MergeFiles : csv = [s \in Symbols |-> IF s = "A" THEN f ELSE NoFile]
    /\ old = [s \in Symbols |-> NoFile]
    /\ mode = "edges"
    /\ valid = <<"A">>
    /\ pc = "first"
    /\ idx = 1
    /\ cached_ranges = [s \in Symbols |-> NoRange]
    /\ is_valid_map = [s \in Symbols |-> FALSE]
    /\ any_csv = FALSE
    /\ newDateA = 0
    /\ newDateZ = 0
    /\ start_date_opt = NoStart
    /\ run = 1
    /\ prev = NoPrev
    /\ valFetches = {}
    /\ calls = <<>>

EdgesMDatapend ==
    /\ mode = "edges" /\ pc = "first"
    /\ \E dateA \in EdgeDays, dateZ \in EdgeDays, tDateA \in EdgeDays, tDateZ \in EdgeDays :
         \E o \in m_datapend(csv["A"], old["A"], dateA, dateZ, tDateA, tDateZ, "A") :
            /\ csv' = [csv EXCEPT !["A"] = o.csv]
            /\ calls' = <<Call("m_datapend", "A", TRUE, TRUE, dateA, dateZ,
                               tDateA, tDateZ, csv["A"], old["A"], o)>>
            /\ pc' = "done"
            /\ UNCHANGED <<old, mode, valid, idx, cached_ranges, is_valid_map, any_csv,
                           newDateA, newDateZ, start_date_opt, run, prev, valFetches>>

NextEdges == EdgesMDatapend

SpecEdges == InitEdges /\ [][NextEdges]_vars

----------------------------------------------------------------------------
\* The remote calls of the program, one call at a time: what each call site
\* passes as timeout, how many requests it may send, what it waits between
\* them, and how the call ends.  The server's answers are the input.  Waits
\* are in tenths of a second; calls lists the requests sent.

\* No timeout argument: yf.download(symbol, start=t0, end=tn,
\* auto_adjust=False, progress=False).
NoTimeout == 0

\* DEFAULT_TIMEOUT = 30 (seconds)
DEFAULT_TIMEOUT == 30

\* max_retries: int = 3, the default every caller of http_get_json uses
max_retries == 3

\* SESSION.get(next_url, params=next_params, timeout=60)
SessionTimeout == 60

\* Retry(total=5, ...)
RetryTotal == 5

\* Retry(..., backoff_factor=0.6, ...), in tenths of a second
BackoffFactor == 6

RemoteSites == {"fetch_data", "http_get_json", "SESSION.get"}

\* "ok": a good answer; "429": too many requests; "error": the request
\* raised (connection error, read timeout, or an error status).
Responses == {"ok", "429", "error"}

Request(site, n, timeout, resp, wait) ==
    [entry |-> site, sym |-> "", attempt |-> n, timeout |-> timeout,
     resp |-> resp, wait |-> wait]

\* http_get_json_wait with the cap of a 429 after an exception too.
http_get_json_waitOneCap(attempt, resp) == 10 * Min({2 ^ attempt, 30})

\* wait = min(2 ** attempt, 30) after a 429, min(2 ** attempt, 10) after an
\* exception
http_get_json_wait(attempt, resp) ==
    10 * Min({2 ^ attempt, IF resp = "429" THEN 30 ELSE 10})

InitRemote ==
    /\ valid \in {<<site>> : site \in RemoteSites}
    /\ csv = [s \in Symbols |-> NoFile]
    /\ old = [s \in Symbols |-> NoFile]
    /\ mode = "remote"
    /\ pc = "calling"
    /\ idx = 1
    /\ cached_ranges = [s \in Symbols |-> NoRange]
    /\ is_valid_map = [s \in Symbols |-> FALSE]
    /\ any_csv = FALSE
    /\ newDateA = 0
    /\ newDateZ = 0
    /\ start_date_opt = NoStart
    /\ run = 1
    /\ prev = NoPrev
    /\ valFetches = {}
    /\ calls = <<>>

RemoteStep(req, nextPc) ==
    /\ calls' = Append(calls, req)
    /\ idx' = idx + 1
    /\ pc' = nextPc
    /\ UNCHANGED <<csv, old, mode, valid, cached_ranges, is_valid_map, any_csv,
                   newDateA, newDateZ, start_date_opt, run, prev, valFetches>>

\* fetch_data: one yf.download, no timeout passed, no loop around it, no
\* try/except: what the request raises goes up to the caller at once.
YfDownload ==
    /\ mode = "remote" /\ pc = "calling" /\ valid[1] = "fetch_data"
    /\ \E resp \in {"ok", "error"} :
         RemoteStep(Request("fetch_data", idx, NoTimeout, resp, 0),
                    IF resp = "ok" THEN "returned" ELSE "raised")

\* http_get_json: one pass of the loop over range(1, max_retries + 1); after
\* the last pass that failed, raise RuntimeError.
http_get_json(attempt, maxr, resp) ==
    IF resp = "ok"
    THEN [req |-> Request("http_get_json", attempt, DEFAULT_TIMEOUT, resp, 0),
          pc  |-> "returned"]
    ELSE [req |-> Request("http_get_json", attempt, DEFAULT_TIMEOUT, resp,
                          http_get_json_wait(attempt, resp)),
          pc  |-> IF attempt = maxr THEN "raised" ELSE "calling"]

HttpGetJsonAttempt ==
    /\ mode = "remote" /\ pc = "calling" /\ valid[1] = "http_get_json"
    /\ idx <= max_retries
    /\ \E resp \in Responses :
         LET step == http_get_json(idx, max_retries, resp)
         IN  RemoteStep(step.req, step.pc)

\* SESSION.get through the adapter of make_session: a 429/5xx status or a
\* failed request is sent again after the backoff while retries are left;
\* when none is left a failed request raises, and a bad status comes back as
\* the response (raise_on_status=False), on which fetch_* leaves its loop
\* without raising (if r.status_code not in (200, 204): break).
SessionGet ==
    /\ mode = "remote" /\ pc = "calling" /\ valid[1] = "SESSION.get"
    /\ idx <= RetryTotal + 1
    /\ \E resp \in Responses :
         IF resp = "ok"
         THEN RemoteStep(Request("SESSION.get", idx, SessionTimeout, resp, 0),
                         "returned")
         ELSE IF idx <= RetryTotal
         THEN RemoteStep(Request("SESSION.get", idx, SessionTimeout, resp,
                                 BackoffFactor * (2 ^ (idx - 1))), "calling")
         ELSE RemoteStep(Request("SESSION.get", idx, SessionTimeout, resp, 0),
                         IF resp = "error" THEN "raised" ELSE "broke")

NextRemote == YfDownload \/ HttpGetJsonAttempt \/ SessionGet

SpecRemote == InitRemote /\ [][NextRemote]_vars

----------------------------------------------------------------------------
\* http_get_json called with any max_retries: calls starts with the call and
\* its max_retries argument, followed by the requests sent.

MaxRetriesArg == 5

HttpCall(maxr) ==
    [entry |-> "call", sym |-> "", attempt |-> 0, timeout |-> DEFAULT_TIMEOUT,
     resp |-> "none", wait |-> 0, max_retries |-> maxr]

InitHttp ==
    /\ \E maxr \in 1..MaxRetriesArg : calls = <<HttpCall(maxr)>>
    /\ valid = <<"http_get_json">>
    /\ csv = [s \in Symbols |-> NoFile]
    /\ old = [s \in Symbols |-> NoFile]
    /\ mode = "http"
    /\ pc = "calling"
    /\ idx = 1
    /\ cached_ranges = [s \in Symbols |-> NoRange]
    /\ is_valid_map = [s \in Symbols |-> FALSE]
    /\ any_csv = FALSE
    /\ newDateA = 0
    /\ newDateZ = 0
    /\ start_date_opt = NoStart
    /\ run = 1
    /\ prev = NoPrev
    /\ valFetches = {}

HttpGetJson ==
    /\ mode = "http" /\ pc = "calling"
    /\ idx <= calls[1].max_retries
    /\ \E resp \in Responses :
         LET step == http_get_json(idx, calls[1].max_retries, resp)
         IN  RemoteStep(step.req, step.pc)

NextHttp == HttpGetJson

SpecHttp == InitHttp /\ [][NextHttp]_vars /\ WF_vars(NextHttp)

----------------------------------------------------------------------------
\* WHO.py: append_rows_unique on the output file of one target year, called
\* any number of times with any batch of rows.  A row has iso3, year and sex
\* (value_percent is left out: it plays no part).

MaxRows == 2

MaxAppends == 2

\* out_path = os.path.join(OUT_DIR, f"obesity_who_europe_{year}.csv")
out_path == "data/who/obesity_who_europe_2020.csv"

\* r.get("year") is None
NoYear == 0

\* str.upper() on the country codes of the model
Upper(iso) == IF iso = "fra" THEN "FRA" ELSE iso

WhoRow(iso, yr, sex) == [iso3 |-> iso, year |-> yr, sex |-> sex]

WhoRows ==
    {WhoRow(iso, yr, "BTSX") : iso \in {"FRA", "fra", ""}, yr \in {2020, NoYear}}
        \cup {WhoRow("FRA", 2020, "BOTH")}

WhoBatches == SeqsUpTo(WhoRows, MaxRows)

\* iso = (r.get("iso3") or "").upper(); yr = int(r.get("year")) or None
WhoKey(r) == <<Upper(r.iso3), r.year>>

\* if iso and yr
HasKey(r) == Upper(r.iso3) # "" /\ r.year # NoYear

\* load_existing_keys: the keys of the rows of the file; none when the file
\* is missing or empty.
load_existing_keys(file) ==
    IF ~file.exists THEN {}
    ELSE {WhoKey(r) : r \in {x \in RowSet(file.rows) : HasKey(x)}}

\* append_rows_unique: existing is read once; every row of the batch with a
\* key that is not in it is appended; the count of appended rows is returned.
append_rows_unique(file, rows) ==
    LET existing == load_existing_keys(file)
        new_rows == SelectSeq(rows, LAMBDA r : HasKey(r) /\ WhoKey(r) \notin existing)
    IN  [file |-> File(file.rows \o new_rows), returned |-> Len(new_rows)]

InitWho ==
    /\ csv = [p \in {out_path} |-> NoFile]
    /\ old = [p \in {out_path} |-> NoFile]
    /\ mode = "who"
    /\ valid = <<>>
    /\ pc = "first"
    /\ idx = 1
    /\ cached_ranges = [s \in Symbols |-> NoRange]
    /\ is_valid_map = [s \in Symbols |-> FALSE]
    /\ any_csv = FALSE
    /\ newDateA = 0
    /\ newDateZ = 0
    /\ start_date_opt = NoStart
    /\ run = 1
    /\ prev = NoPrev
    /\ valFetches = {}
    /\ calls = <<>>

WhoAppend ==
    /\ mode = "who" /\ idx <= MaxAppends
    /\ \E rows \in WhoBatches :
         LET o == append_rows_unique(csv[out_path], rows)
         IN  /\ csv' = [csv EXCEPT ![out_path] = o.file]
             /\ calls' = Append(calls,
                           [entry |-> "append_rows_unique", sym |-> "", rows |-> rows,
                            fileBefore |-> csv[out_path], fileAfter |-> o.file,
                            returned |-> o.returned])
    /\ idx' = idx + 1
    /\ UNCHANGED <<old, mode, valid, pc, cached_ranges, is_valid_map, any_csv,
                   newDateA, newDateZ, start_date_opt, run, prev, valFetches>>

NextWho == WhoAppend

SpecWho == InitWho /\ [][NextWho]_vars

----------------------------------------------------------------------------
\* Properties.  A call c is a record of calls; its normalized desired range
\* is [TDateA(c), TDateZ(c)].

Normalized(c) == c.out.plan # "Raise"

TDateA(c) == get_next_trading_day(c.newDateA)

TDateZ(c) == get_last_trading_day(c.newDateZ)

Window(w) == w.start..(w.end - 1)

Issued(c, which) == \E k \in DOMAIN c.out.fetches : c.out.fetches[k].which = which

Untouched(c) ==
    /\ c.out.fetches = <<>>
    /\ c.out.writes = 0
    /\ c.out.csv = c.csvBefore
    /\ c.out.old = c.oldBefore

\* C1: with an existing cache validated as trusted, update_setup -> datapend
\* fetches a prepend window exactly when the normalized desired start is
\* earlier than the cached start, and an append window exactly when the
\* normalized desired end is later than the cached end.
C1_EdgeFetchExactlyWhenBeyondCache ==
    \A i \in DOMAIN calls :
        LET c == calls[i]
        IN  (c.entry = "batch" /\ c.hadFile /\ c.is_valid /\ Normalized(c)) =>
                /\ Issued(c, "prepend") <=> TDateA(c) < c.dateA
                /\ Issued(c, "append") <=> TDateZ(c) > c.dateZ

\* C2: a symbol without a cache file gets a full grab: exactly one provider
\* call, from the first trading day at or after the desired start to the day
\* after the last trading day at or before the desired end, and no validation
\* fetch and no edge fetch.
C2_NoCacheOneFullFetch ==
    \A i \in DOMAIN calls :
        LET c == calls[i]
        IN  (~c.hadFile /\ Normalized(c)) =>
                /\ c.out.plan \in {"FullReplace", "Abort"}
                /\ Len(c.out.fetches) = 1
                /\ LET w == c.out.fetches[1]
                   IN  /\ w.which = "full"
                       /\ IsTradingDay(w.start) /\ w.start >= c.newDateA
                       /\ \A d \in c.newDateA..(w.start - 1) : ~IsTradingDay(d)
                       /\ IsTradingDay(w.end - 1) /\ w.end - 1 <= c.newDateZ
                       /\ \A d \in w.end..c.newDateZ : ~IsTradingDay(d)
                /\ \A v \in valFetches : v.sym # c.sym

C2_Witness ==
    \E i \in DOMAIN calls :
        LET c == calls[i]
        IN  /\ ~c.hadFile /\ ~c.csvBefore.exists
            /\ c.out.plan = "FullReplace"
            /\ c.out.csv.exists
            /\ c.out.fetches[1].start > c.newDateA

\* C3: a cache whose validation verdict is untrusted is replaced in full over
\* the whole normalized desired range, whatever its bounds, and no call for
\* that symbol in that run goes through datapend.
C3_UntrustedIsFullReplace ==
    \A i \in DOMAIN calls :
        LET c == calls[i]
        IN  (c.hadFile /\ ~c.is_valid /\ Normalized(c)) =>
                /\ c.out.plan \in {"FullReplace", "Abort"}
                /\ c.out.fetches =
                     <<[which |-> "full", start |-> TDateA(c), end |-> TDateZ(c) + 1]>>
                /\ \A j \in DOMAIN calls :
                     calls[j].sym = c.sym => calls[j].out.plan # "Merge"

C3_Witness ==
    \E i \in DOMAIN calls :
        LET c == calls[i]
        IN  /\ c.hadFile /\ ~c.is_valid
            /\ c.out.plan = "FullReplace"
            /\ c.dateA < TDateA(c) /\ TDateZ(c) = c.dateZ
            /\ c.out.old = c.csvBefore

\* C4: a trusted cache whose range equals the normalized desired range is
\* left alone: no provider fetch, and the cache file and the backup file are
\* unchanged.
C4_EqualRangeIsNoOp ==
    \A i \in DOMAIN calls :
        LET c == calls[i]
        IN  (c.is_valid /\ Normalized(c)
             /\ c.dateA = TDateA(c) /\ c.dateZ = TDateZ(c)) =>
                c.out.plan = "NoOp" /\ Untouched(c)

C4_Witness ==
    \E i \in DOMAIN calls :
        LET c == calls[i]
        IN  /\ c.hadFile /\ c.is_valid /\ Normalized(c)
            /\ c.dateA = TDateA(c) /\ c.dateZ = TDateZ(c)
            /\ c.dateA < c.dateZ
            /\ c.newDateA < c.dateA

\* C5: a normalized desired range that lies within a trusted cache's range is
\* a no-op even when the bounds differ: no fetch, no rewrite of the file.
C5_ContainedRangeIsNoOp ==
    \A i \in DOMAIN calls :
        LET c == calls[i]
        IN  (c.hadFile /\ c.is_valid /\ Normalized(c)
             /\ c.dateA <= TDateA(c) /\ TDateA(c) <= TDateZ(c)
             /\ TDateZ(c) <= c.dateZ) =>
                Untouched(c)

\* C6: an append fetch is [cached.to + 1, desired.to + 1) and a prepend fetch
\* is [desired.from, cached.from): the window reaches the desired bound it
\* extends to and holds no date of the cached range; and a cache that starts
\* at the desired start and ends before the desired end is extended by that
\* one append fetch, which covers every day after the cache up to the end.
C6_EdgeWindowBounds ==
    \A i \in DOMAIN calls :
        LET c == calls[i]
        IN  /\ \A k \in DOMAIN c.out.fetches :
                 LET w == c.out.fetches[k]
                 IN  /\ w.which = "append" =>
                            /\ w.start = c.dateZ + 1 /\ w.end = TDateZ(c) + 1
                            /\ TDateZ(c) > c.dateZ => TDateZ(c) \in Window(w)
                            /\ Window(w) \cap (c.dateA..c.dateZ) = {}
                     /\ w.which = "prepend" =>
                            /\ w.start = TDateA(c) /\ w.end = c.dateA
                            /\ TDateA(c) < c.dateA => TDateA(c) \in Window(w)
                            /\ Window(w) \cap (c.dateA..c.dateZ) = {}
            /\ (c.hadFile /\ c.is_valid /\ Normalized(c)
                /\ c.dateA = TDateA(c) /\ c.dateZ < TDateZ(c)) =>
                    /\ Len(c.out.fetches) = 1
                    /\ c.out.fetches[1].which = "append"
                    /\ Window(c.out.fetches[1]) = (c.dateZ + 1)..TDateZ(c)

C6_Witness ==
    \E i \in DOMAIN calls :
        LET c == calls[i]
        IN  /\ c.entry = "batch" /\ c.hadFile /\ c.is_valid
            /\ c.out.plan = "Merge"
            /\ c.dateA = TDateA(c) /\ c.dateZ < TDateZ(c)
            /\ c.out.app # <<>>
            /\ Max(DatesOf(c.out.csv.rows)) = TDateZ(c)

\* C7: no fetch of a run on a trusted cache covers a date that lies within
\* the range of the cache file as it is when the fetch is issued.
C7_NeverRefetchCachedDates ==
    \A i \in DOMAIN calls :
        LET c == calls[i]
        IN  (c.is_valid /\ c.csvBefore.exists) =>
                \A k \in DOMAIN c.out.fetches :
                    LET r == get_CSV_dates(c.csvBefore)
                    IN  Window(c.out.fetches[k]) \cap (r.a..r.z) = {}

\* C10: a second run of the batch over the same desired range, after a first
\* run that completed, is a no-op for every symbol: no provider data fetch
\* and no file write.
C10_SecondRunIsNoOp ==
    (mode = "batch" /\ prev.ran /\ prev.pc = "done") =>
        \A i \in DOMAIN calls :
            LET c == calls[i]
            IN  (c.newDateA = prev.newDateA /\ Normalized(c)) =>
                    c.out.plan = "NoOp" /\ Untouched(c)

\* C8: after any merge, whatever the file's rows and the fetched prepend and
\* append rows were, the persisted rows are strictly ascending by date (so no
\* two rows share a date).
StrictlyAscending(rows) ==
    \A i \in DOMAIN rows : \A j \in DOMAIN rows : i < j => rows[i].date < rows[j].date

C8_MergedSeriesStrictlyAscending ==
    \A i \in DOMAIN calls :
        calls[i].out.plan = "Merge" => StrictlyAscending(calls[i].out.csv.rows)

\* a merge whose fetched frames arrived out of order, with a repeated date and
\* overlapping the file
C8_Witness ==
    \E i \in DOMAIN calls :
        LET c == calls[i]
        IN  /\ c.out.plan = "Merge"
            /\ ~StrictlyAscending(c.out.pre \o c.csvBefore.rows \o c.out.app)
            /\ Len(c.out.pre) > 1 /\ c.out.pre[1].date > c.out.pre[2].date
            /\ DatesOf(c.out.app) \cap DatesOf(c.csvBefore.rows) # {}
            /\ Len(c.out.csv.rows) > 2

\* C9: when a fetched row and a row of the file share a date, the persisted
\* row of that date is the fetched one, for the prepend batch as for the append
\* batch.  Stated of the merges in which rows of equal date kept the order of
\* the concatenation [prepend, existing, append].
FetchedAdj(c, d) ==
    {r.adj : r \in {x \in RowSet(c.out.pre \o c.out.app) : x.date = d}}

PersistedAdj(c, d) ==
    {r.adj : r \in {x \in RowSet(c.out.csv.rows) : x.date = d}}

OrderKept(c) ==
    LET combined == c.out.pre \o c.csvBefore.rows \o c.out.app
        kept     == KeepLastInOrder(combined, DatesOf(combined))
    IN  c.out.csv.rows \in {kept, Format6(kept)}

C9_FetchedRowWinsOverlap ==
    \A i \in DOMAIN calls :
        LET c == calls[i]
        IN  (c.out.plan = "Merge" /\ OrderKept(c)) =>
                \A d \in DatesOf(c.out.pre \o c.out.app) \cap DatesOf(c.csvBefore.rows) :
                    PersistedAdj(c, d) \subseteq
                        FetchedAdj(c, d) \cup {Round6(v) : v \in FetchedAdj(c, d)}

\* C11: a full grab whose fetch returns zero rows changes nothing: the cache
\* file is as it was before the call (still absent when it was absent), the
\* backup file is as it was, and nothing is written.
C11_EmptyFullFetchNoMutation ==
    \A i \in DOMAIN calls :
        LET c == calls[i]
        IN  (Issued(c, "full") /\ Fetched(c.sym, c.out.fetches[1]) = <<>>) =>
                /\ c.out.plan = "Abort"
                /\ c.out.writes = 0
                /\ c.out.csv = c.csvBefore
                /\ c.out.old = c.oldBefore
                /\ csv[c.sym] = c.csvBefore
                /\ old[c.sym] = c.oldBefore

\* an untrusted file met by an empty full fetch, and a missing file met by one
C11_Witness ==
    /\ \E i \in DOMAIN calls :
          LET c == calls[i]
          IN  /\ c.out.plan = "Abort" /\ c.csvBefore.exists /\ ~c.is_valid
              /\ csv[c.sym] = c.csvBefore
    /\ \E i \in DOMAIN calls :
          LET c == calls[i]
          IN  /\ c.out.plan = "Abort" /\ ~c.csvBefore.exists
              /\ ~csv[c.sym].exists

\* C12: a write of the cache file that stops part-way never leaves a cut-short
\* file at the cache path, on the full-replace path and on the merge path: the
\* path holds the file as it was or the complete new file.
C12_NoTruncatedCacheFile ==
    \A i \in DOMAIN calls :
        LET c == calls[i]
        IN  (c.out.plan = "Stopped" /\ c.out.csv.exists) =>
                c.out.csv \in {c.csvBefore, c.out.intended}

\* C13: a full replace that stops or fails at any step after its fetch leaves
\* the prior cache file at its path with its prior content.
C13_FullReplaceKeepsPriorFile ==
    \A i \in DOMAIN calls :
        LET c == calls[i]
        IN  (c.out.plan = "Stopped" /\ c.out.of = "FullReplace" /\ c.csvBefore.exists) =>
                c.out.csv = c.csvBefore

\* C14: in a full replace over an existing file, the file is copied to the
\* backup path before it is removed and before the new file is written (at
\* every step at which the original is gone or a new file is under way, the
\* backup already holds the prior content); after a full replace that ran to
\* its end the backup equals the prior file and the cache file holds the
\* fetched series.
C14_BackupBeforeWriteAndRemoval ==
    \A i \in DOMAIN calls :
        LET c == calls[i]
        IN  /\ (c.entry = "batch" /\ c.out.plan = "FullReplace" /\ c.csvBefore.exists) =>
                    /\ c.out.old = c.csvBefore
                    /\ c.out.csv.exists
                    /\ c.out.csv.rows = Fetched(c.sym, c.out.fetches[1])
            /\ (c.entry = "batch" /\ c.out.plan = "Stopped" /\ c.out.of = "FullReplace"
                /\ c.csvBefore.exists
                /\ (c.out.csv # c.csvBefore \/ c.out.tmp.exists)) =>
                    c.out.old = c.csvBefore

\* a full replace that ran to its end over an existing file, followed by one
\* that stopped after the removal of the original
C14_Witness ==
    /\ \E i \in DOMAIN calls :
          LET c == calls[i]
          IN  /\ c.out.plan = "FullReplace" /\ c.csvBefore.exists
              /\ c.out.csv # c.csvBefore /\ c.out.old = c.csvBefore
    /\ \E i \in DOMAIN calls :
          LET c == calls[i]
          IN  /\ c.out.plan = "Stopped" /\ c.out.of = "FullReplace"
              /\ c.out.at = "removed"
              /\ ~c.out.csv.exists /\ c.out.old = c.csvBefore

\* The symbols validated so far in this run, the anchor date of a validated
\* symbol (its file's first date), and whether the remote returned a row for
\* the anchor: the validation fetch is yf.download(start=dateA, end=dateZ),
\* end exclusive.
Validated(s) == cached_ranges[s].has

RemoteHasAnchor(s, a, z) == a < z /\ ProviderHas(s, a)

CachedAnchor(s) == CHOOSE v \in AnchorValues(csv[s].rows, cached_ranges[s].a) : TRUE

C16_NoRemoteAnchorIsIndeterminate ==
    \A s \in Symbols :
        (Validated(s) /\ ~RemoteHasAnchor(s, cached_ranges[s].a, cached_ranges[s].z)) =>
            /\ is_valid_map[s] # TRUE
            /\ is_valid_map[s] # FALSE

\* C17: a cache whose anchor could not be compared (the remote returned no row
\* for it) is replaced in full by the batch: never left as it is, never
\* merged into.
C17_UncomparedCacheIsFullReplace ==
    \A i \in DOMAIN calls :
        LET c == calls[i]
        IN  (c.entry = "batch" /\ c.hadFile /\ Normalized(c)
             /\ ~RemoteHasAnchor(c.sym, c.dateA, c.dateZ)) =>
                c.out.plan \in {"FullReplace", "Abort"}

C19_ReversedRangeRejected ==
    \A i \in DOMAIN calls :
        LET c == calls[i]
        IN  c.newDateA > c.newDateZ => Untouched(c)

\* C20: get_next_trading_day(d) is the smallest trading day of [d, d + 7] and
\* fails when there is none; get_last_trading_day(d) is the largest trading
\* day of [d - 7, d] and fails when there is none; each is d itself when d is
\* a trading day.  Read off the full window update_setup builds from the two
\* (start = next(newDateA), end = last(newDateZ) + 1), and off its failure.
C20_TradingDayLookups ==
    \A i \in DOMAIN calls :
        LET c      == calls[i]
            after  == {t \in c.newDateA..(c.newDateA + LookAround) : IsTradingDay(t)}
            before == {t \in (c.newDateZ - LookAround)..c.newDateZ : IsTradingDay(t)}
        IN  /\ c.out.plan = "Raise" <=> (after = {} \/ before = {})
            /\ c.out.plan # "Raise" =>
                   LET next == c.out.fetches[1].start
                       last == c.out.fetches[1].end - 1
                   IN  /\ next \in after /\ \A t \in after : next <= t
                       /\ last \in before /\ \A t \in before : t <= last
                       /\ IsTradingDay(c.newDateA) => next = c.newDateA
                       /\ IsTradingDay(c.newDateZ) => last = c.newDateZ

\* a start and an end on days the market is closed, with other trading days
\* within the look-around of the end
C20_Witness ==
    \E i \in DOMAIN calls :
        LET c == calls[i]
        IN  /\ c.out.plan # "Raise"
            /\ ~IsTradingDay(c.newDateA) /\ ~IsTradingDay(c.newDateZ)
            /\ c.out.fetches[1].start > c.newDateA
            /\ c.out.fetches[1].end - 1 < c.newDateZ
            /\ Cardinality({t \in (c.newDateZ - LookAround)..c.newDateZ : IsTradingDay(t)}) > 1

\* C21: for a symbol with an existing cache, no provider data fetch, backup
\* or cache write happens before the symbol's validation verdict has been
\* computed in the run; and no backup or write happens without a fetch having
\* been issued before it.
C21_ValidateThenFetchThenWrite ==
    \A i \in DOMAIN calls :
        LET c       == calls[i]
            touched == c.out.writes > 0 \/ c.out.old # c.oldBefore
        IN  /\ (c.csvBefore.exists /\ (c.out.fetches # <<>> \/ touched)) =>
                    \E v \in valFetches : v.sym = c.sym
            /\ touched => c.out.fetches # <<>>

\* C22: a merge (edge fetch and stitch onto the existing file) happens only
\* after a validation of the existing cache returned trusted in the same run,
\* on the batch as on the single-ticker CLI.
C22_MergeOnlyAfterTrustedVerdict ==
    \A i \in DOMAIN calls :
        LET c == calls[i]
        IN  c.out.plan = "Merge" =>
                /\ c.is_valid
                /\ \E v \in valFetches : v.sym = c.sym

\* C23: a batch that has ended has processed every one of its symbols: a
\* failure at one symbol (calendar lookup, provider fetch, missing file) does
\* not keep the symbols after it from getting their call of update_setup.
C23_FailureLocalToSymbol ==
    (mode = "batch" /\ pc \in {"done", "crashed"}) => Len(calls) = Len(valid)

\* C24: a call that ends at a provider fetch raising, in the full grab or at
\* either edge fetch of a merge, leaves the symbol's cache file and backup
\* file as they were before the call.
C24_FetchErrorLeavesFiles ==
    \A i \in DOMAIN calls :
        LET c == calls[i]
        IN  (c.out.plan = "Stopped" /\ c.out.at = "fetching") =>
                /\ c.out.csv = c.csvBefore
                /\ c.out.old = c.oldBefore
                /\ i = Len(calls) => (csv[c.sym] = c.csvBefore /\ old[c.sym] = c.oldBefore)

\* the append fetch of a merge raising after its prepend fetch returned rows
C24_Witness ==
    \E i \in DOMAIN calls :
        LET c == calls[i]
        IN  /\ c.out.plan = "Stopped" /\ c.out.at = "fetching"
            /\ c.csvBefore.exists
            /\ pc = "crashed"
            /\ c.out.of = "Merge" /\ Len(c.out.fetches) = 2
            /\ Fetched(c.sym, c.out.fetches[1]) # <<>>

\* C25: the cache path, backup path and temporary path of one symbol never
\* coincide with any of the three paths of a different symbol.
C25_PathsPartitionedPerSymbol ==
    \A i \in DOMAIN calls : \A j \in DOMAIN calls :
        calls[i].sym # calls[j].sym => calls[i].paths \cap calls[j].paths = {}

\* C26: every row persisted to a cache file has its fields present: a fetched
\* row with a missing field is dropped before the write, on the full-replace
\* path and on the merge path.
C26_PersistedRowsComplete ==
    \A i \in DOMAIN calls :
        LET c == calls[i]
        IN  c.out.plan \in {"FullReplace", "Merge"} =>
                \A r \in RowSet(c.out.csv.rows) : r.adj # NaN

\* C27: only a full replace destroys a series: after any other call on an
\* existing cache file, and so after any prepend, append or prepend-and-append
\* merge, the file still exists, every date it held before the call is still
\* in it, and its range after the call contains its range before.
C27_MergeRetainsCachedDates ==
    \A i \in DOMAIN calls :
        LET c      == calls[i]
            before == DatesOf(c.csvBefore.rows)
            after  == DatesOf(c.out.csv.rows)
        IN  (c.csvBefore.exists /\ c.out.plan # "FullReplace") =>
                /\ c.out.csv.exists
                /\ before \subseteq after
                /\ Min(after) <= Min(before)
                /\ Max(after) >= Max(before)

\* a merge that fetched rows on both edges of a file of several rows
C27_Witness ==
    \E i \in DOMAIN calls :
        LET c == calls[i]
        IN  /\ c.out.plan = "Merge"
            /\ c.out.pre # <<>> /\ c.out.app # <<>>
            /\ Len(c.csvBefore.rows) > 1
            /\ Len(c.out.csv.rows) >= Len(c.csvBefore.rows) + 2

\* C28: every remote call is bounded: each request carries a timeout, a call
\* sends no more requests than its retry limit allows, and a failure comes up
\* to the caller only after the failed request was tried again following a
\* backoff wait.
C28_RemoteCallsBounded ==
    /\ \A i \in DOMAIN calls : calls[i].timeout # NoTimeout
    /\ Len(calls) <= RetryTotal + 1
    /\ pc = "raised" =>
          /\ Len(calls) > 1
          /\ \A i \in DOMAIN calls : i < Len(calls) => calls[i].wait > 0

\* The rows a written file was made from: the fetched frame of a full replace,
\* the fetched edges and the file's own rows of a merge.  A value is as the
\* remote has it when it is the remote value, exact or at six decimals.
WrittenFrom(c) ==
    IF c.out.plan = "FullReplace"
    THEN RowSet(Fetched(c.sym, c.out.fetches[1]))
    ELSE RowSet(c.out.pre \o c.csvBefore.rows \o c.out.app)

AsRemote(s, r) ==
    r.adj \in {RemoteAdj(s, r.date), Round6(RemoteAdj(s, r.date))}

\* C29: a persisted value survives the write and the read back at the
\* validator's tolerance: every row of a file written by save_data, datapend
\* or m_datapend is less than the tolerance away from the row it was written
\* from, a row that was as the remote has it is still within the tolerance of
\* the remote value after the rewrite, and a cache whose anchor is as the
\* remote has it validates as trusted in the next run.
C29_RoundTripWithinTolerance ==
    /\ \A i \in DOMAIN calls :
          LET c == calls[i]
          IN  c.out.plan \in {"FullReplace", "Merge"} =>
                \A r \in RowSet(c.out.csv.rows) :
                    \E src \in WrittenFrom(c) :
                        /\ src.date = r.date
                        /\ Abs(r.adj - src.adj) < Tolerance
                        /\ AsRemote(c.sym, src) =>
                              /\ AsRemote(c.sym, r)
                              /\ Abs(r.adj - RemoteAdj(c.sym, r.date)) < Tolerance
    /\ \A s \in Symbols :
          (mode = "batch" /\ pc = "first" /\ Validated(s)
           /\ RemoteHasAnchor(s, cached_ranges[s].a, cached_ranges[s].z)
           /\ AsRemote(s, Row(cached_ranges[s].a, CachedAnchor(s)))) =>
                is_valid_map[s]

\* the second run validates a file whose anchor the merge of the first run
\* rewrote at six decimals: it is no longer the remote value, and is trusted
C29_Witness ==
    /\ mode = "batch" /\ run = 2 /\ pc = "first"
    /\ Validated("A")
    /\ RemoteHasAnchor("A", cached_ranges["A"].a, cached_ranges["A"].z)
    /\ CachedAnchor("A") # RemoteAdj("A", cached_ranges["A"].a)
    /\ CachedAnchor("A") = Round6(RemoteAdj("A", cached_ranges["A"].a))
    /\ is_valid_map["A"]

\* C30: a merge whose edge fetches all return zero rows is a no-op: it ends
\* without an error, writes nothing, and leaves the cache file as it was.
C30_EmptyEdgeFetchesNoRewrite ==
    \A i \in DOMAIN calls :
        LET c == calls[i]
        IN  (c.out.plan = "Merge" /\ c.out.fetches # <<>>
             /\ \A k \in DOMAIN c.out.fetches : Fetched(c.sym, c.out.fetches[k]) = <<>>) =>
                /\ c.out.writes = 0
                /\ c.out.csv = c.csvBefore

\* C31: the cached range and the verdict update_setup is given are those of
\* the cache file as it is on disk when the call starts: dateA and dateZ are
\* the file's first and last date and the verdict is what validating the file
\* gives, also in a batch that lists a symbol more than once.
C31_RangeAndVerdictOfFileOnDisk ==
    \A i \in DOMAIN calls :
        LET c == calls[i]
        IN  (c.entry = "batch" /\ c.csvBefore.exists) =>
                LET r == get_CSV_dates(c.csvBefore)
                IN  /\ c.dateA = r.a
                    /\ c.dateZ = r.z
                    /\ c.is_valid = validate_CSV_data(c.csvBefore, r.a, r.z, c.sym)

\* C32: m_datapend fetches the prepend window only if tDateA < dateA and the
\* append window only if tDateZ > dateZ: every fetch it issues has its start
\* strictly before its exclusive end, and when neither holds it issues no
\* fetch.
C32_MDatapendNoReversedFetch ==
    \A i \in DOMAIN calls :
        LET c == calls[i]
        IN  (c.entry = "m_datapend" /\ c.out.plan = "Merge") =>
                /\ \A k \in DOMAIN c.out.fetches :
                      c.out.fetches[k].start < c.out.fetches[k].end
                /\ Issued(c, "prepend") <=> c.newDateA < c.dateA
                /\ Issued(c, "append") <=> c.newDateZ > c.dateZ
                /\ (c.newDateA >= c.dateA /\ c.newDateZ <= c.dateZ) => c.out.fetches = <<>>

\* a target range that starts after the cached start and ends after the
\* cached end: the append window alone is fetched, and it returns rows
C32_Witness ==
    \E i \in DOMAIN calls :
        LET c == calls[i]
        IN  /\ c.entry = "m_datapend" /\ c.out.plan = "Merge"
            /\ c.newDateA > c.dateA /\ c.newDateZ > c.dateZ
            /\ Len(c.out.fetches) = 1 /\ c.out.fetches[1].which = "append"
            /\ c.out.app # <<>>

\* C33: the single-ticker CLI with an existing file and a start date given:
\* a start on or before the file's last date skips the update, with no call
\* of m_update_setup, no fetch and no change to any file; a start after the
\* file's last date goes on to m_update_setup.
C33_OverlappingStartSkipped ==
    [][(mode = "cli" /\ pc = "first" /\ has_data(csv[valid[1]])
        /\ start_date_opt'.given) =>
          IF start_date_opt'.date <= get_CSV_dates(csv[valid[1]]).z
          THEN /\ pc' = "skipped"
               /\ calls' = calls
               /\ valFetches' = valFetches
               /\ csv' = csv
               /\ old' = old
          ELSE /\ pc' \in {"done", "crashed"}
               /\ Len(calls') = Len(calls) + 1
               /\ calls'[Len(calls')].entry = "cli"
               /\ calls'[Len(calls')].newDateA = start_date_opt'.date]_vars

\* a start given on the very last date of the file: skipped, nothing called
C33_Witness ==
    /\ mode = "cli" /\ pc = "skipped"
    /\ start_date_opt.given
    /\ has_data(csv[valid[1]])
    /\ start_date_opt.date = get_CSV_dates(csv[valid[1]]).z
    /\ calls = <<>>

\* C34: the single-ticker CLI on an existing file is append-only: whatever
\* the start-date argument and the cached range, it issues no prepend fetch
\* and no full fetch and never replaces the file; the only fetch it can issue
\* is the append window that starts the day after the file's last date, and
\* every row the file held is still in it afterwards.
C34_CliExistingAppendOnly ==
    \A i \in DOMAIN calls :
        LET c == calls[i]
        IN  (c.entry = "cli" /\ c.hadFile) =>
                /\ c.out.plan \in {"NoOp", "Merge", "Raise"}
                /\ ~Issued(c, "prepend")
                /\ ~Issued(c, "full")
                /\ \A k \in DOMAIN c.out.fetches :
                      /\ c.out.fetches[k].which = "append"
                      /\ c.out.fetches[k].start = get_CSV_dates(c.csvBefore).z + 1
                /\ c.out.csv.exists
                /\ RowSet(c.csvBefore.rows) \subseteq RowSet(c.out.csv.rows)

\* the CLI with a start given after the file's last date: the append window
\* is fetched and rows are added
C34_Witness ==
    \E i \in DOMAIN calls :
        LET c == calls[i]
        IN  /\ c.entry = "cli" /\ c.hadFile
            /\ start_date_opt.given
            /\ c.out.plan = "Merge"
            /\ Len(c.out.fetches) = 1
            /\ c.out.app # <<>>
            /\ c.newDateA > c.dateZ + 1

\* The requests of an http_get_json call, in order.
Requests == SubSeq(calls, 2, Len(calls))

Failed(req) == req.resp \in {"429", "error"}

\* What an http_get_json call has done so far: at most max_retries requests,
\* numbered from 1, all but the last failed, each failed one followed by its
\* wait; returned exactly at a request that succeeded, raised exactly when
\* max_retries requests have failed.
HttpGetJsonBounded ==
    LET maxr == calls[1].max_retries
        reqs == Requests
    IN  /\ Len(reqs) <= maxr
        /\ \A k \in DOMAIN reqs :
              /\ reqs[k].attempt = k
              /\ k < Len(reqs) => Failed(reqs[k])
              /\ reqs[k].resp = "429" => reqs[k].wait = 10 * Min({2 ^ k, 30})
              /\ reqs[k].resp = "error" => reqs[k].wait = 10 * Min({2 ^ k, 10})
        /\ pc = "returned" <=> (reqs # <<>> /\ reqs[Len(reqs)].resp = "ok")
        /\ pc = "raised" <=> (Len(reqs) = maxr /\ Failed(reqs[maxr]))
        /\ pc = "calling" <=> (Len(reqs) < maxr /\ \A k \in DOMAIN reqs : Failed(reqs[k]))

\* C35: http_get_json ends for every sequence of server responses: it sends
\* at most max_retries requests, a 429 and an exception each using up one of
\* them; it returns at the first request that succeeds and raises once
\* max_retries requests have failed; the wait after a failed request is
\* min(2^attempt, 30) seconds after a 429 and min(2^attempt, 10) seconds
\* after an exception (in tenths of a second here).
C35_HttpGetJsonTerminates ==
    []HttpGetJsonBounded /\ <>(pc \in {"returned", "raised"})

\* five requests failed in a row, the fifth by an exception after a 429 on
\* the fourth: waits of 16 and 10 seconds, then RuntimeError
C35_Witness ==
    /\ mode = "http" /\ pc = "raised"
    /\ calls[1].max_retries = 5
    /\ Len(Requests) = 5
    /\ Requests[4].resp = "429" /\ Requests[4].wait = 160
    /\ Requests[5].resp = "error" /\ Requests[5].wait = 100

\* How often a key occurs in the rows of the output file.
Occurrences(file, key) ==
    Cardinality({k \in DOMAIN file.rows :
                    HasKey(file.rows[k]) /\ WhoKey(file.rows[k]) = key})

\* C36: append_rows_unique appends only rows whose (iso3, year) key is not in
\* the file and returns the number of rows it appended: after any sequence of
\* calls every key occurs at most once in the file, also when one batch holds
\* a key twice, and a call with the rows of the call before it appends
\* nothing and returns 0.
C36_KeysUniqueInFile ==
    /\ \A r \in RowSet(csv[out_path].rows) : Occurrences(csv[out_path], WhoKey(r)) <= 1
    /\ \A i \in DOMAIN calls :
          LET c == calls[i]
          IN  /\ c.returned = Len(c.fileAfter.rows) - Len(c.fileBefore.rows)
              /\ \A r \in RowSet(c.rows) :
                    (HasKey(r) /\ WhoKey(r) \in load_existing_keys(c.fileBefore)) =>
                        Occurrences(c.fileAfter, WhoKey(r)) =
                            Occurrences(c.fileBefore, WhoKey(r))
              /\ (i > 1 /\ c.rows = calls[i - 1].rows) =>
                    c.returned = 0 /\ c.fileAfter.rows = c.fileBefore.rows

\* The trading days of the desired range of a call, and the normalized start
\* and end as the full fetch of the call shows them.
TradingDaysWithin(c) == {t \in c.newDateA..c.newDateZ : IsTradingDay(t)}

NormStart(c) == c.out.fetches[1].start

NormEnd(c) == c.out.fetches[1].end - 1

\* C37 as stated: every desired range from <= to that holds a trading day is
\* normalized to from <= start <= end <= to, and every range from <= to that
\* holds none is normalized to start > end and handed to the fetch.
C37_EveryRangeNormalized ==
    \A i \in DOMAIN calls :
        LET c == calls[i]
        IN  c.newDateA <= c.newDateZ =>
                /\ Normalized(c)
                /\ c.out.fetches # <<>>
                /\ IF TradingDaysWithin(c) # {}
                   THEN /\ c.newDateA <= NormStart(c)
                        /\ NormStart(c) <= NormEnd(c)
                        /\ NormEnd(c) <= c.newDateZ
                   ELSE NormStart(c) > NormEnd(c)

\* C37: normalization keeps a non-empty desired range well ordered whenever
\* both lookups find a trading day within their seven days: a range
\* from <= to that holds a trading day is normalized to
\* from <= start <= end <= to; a range from <= to that holds none is
\* normalized to start > end and is still handed to the fetch; when a lookup
\* finds no trading day within its seven days the call raises and nothing is
\* normalized or fetched.
C37_RangeNormalizedWhenLookupsSucceed ==
    \A i \in DOMAIN calls :
        LET c == calls[i]
        IN  c.newDateA <= c.newDateZ =>
                IF NextRaises(c.newDateA) \/ LastRaises(c.newDateZ)
                THEN ~Normalized(c) /\ c.out.fetches = <<>>
                ELSE /\ Normalized(c)
                     /\ Len(c.out.fetches) = 1
                     /\ c.out.fetches[1].which = "full"
                     /\ IF TradingDaysWithin(c) # {}
                        THEN /\ c.newDateA <= NormStart(c)
                             /\ NormStart(c) <= NormEnd(c)
                             /\ NormEnd(c) <= c.newDateZ
                        ELSE NormStart(c) > NormEnd(c)

\* a range that starts and ends on days the market is closed and holds
\* trading days: both ends move inwards
C37_Witness ==
    \E i \in DOMAIN calls :
        LET c == calls[i]
        IN  /\ Normalized(c)
            /\ ~IsTradingDay(c.newDateA) /\ ~IsTradingDay(c.newDateZ)
            /\ c.newDateA < NormStart(c)
            /\ NormStart(c) < NormEnd(c)
            /\ NormEnd(c) < c.newDateZ

\* A path holds a complete series of the call: the prior cache file, the
\* prior backup or the new file, whole.
Complete(c, file) ==
    file.exists /\ file \in {c.csvBefore, c.oldBefore, c.out.intended}

\* C38: a symbol that has a complete cache file (or a complete backup) keeps
\* a complete series through a full replace: wherever the full replace stops
\* (after the fetch, during or after the backup copy, after the removal of
\* the original, during the temporary write, before or after the rename) and
\* when it runs to its end, the cache path or the backup path holds a
\* complete series.
C38_FullReplaceRecoverable ==
    \A i \in DOMAIN calls :
        LET c == calls[i]
        IN  /\ (c.out.plan = "Stopped" /\ c.out.of = "FullReplace"
                /\ (c.csvBefore.exists \/ c.oldBefore.exists)) =>
                    Complete(c, c.out.csv) \/ Complete(c, c.out.old)
            /\ (c.out.plan = "FullReplace" /\ c.csvBefore.exists) =>
                    c.out.csv.exists /\ c.out.csv.rows = Fetched(c.sym, c.out.fetches[1])

\* a full replace over an existing file that stopped part-way through the
\* temporary write: the original is gone, the new file is not there yet, the
\* backup holds the prior series
C38_Witness ==
    \E i \in DOMAIN calls :
        LET c == calls[i]
        IN  /\ c.out.plan = "Stopped" /\ c.out.of = "FullReplace"
            /\ c.out.at = "writing"
            /\ c.csvBefore.exists /\ ~c.oldBefore.exists
            /\ ~c.out.csv.exists
            /\ c.out.tmp.exists /\ c.out.tmp.rows # <<>>
            /\ c.out.old = c.csvBefore

====
